---- MODULE Spec2Model ----
(***************************************************************************)
(* RailStandardAI: the PDF viewer overlay (ClauseModal), its window        *)
(* geometry, and the conversation controller with its IndexedDB store.     *)
(*                                                                         *)
(* Conventions.  A zoom factor is kept in quarter units (1.0 is 4, 0.5 is  *)
(* 2, 4.0 is 16): every factor the buttons can produce is a multiple of    *)
(* 0.25 and is exact in binary floating point.  One action is one run of   *)
(* the event loop: a handler or a promise continuation up to its next      *)
(* await, together with the React re-render and the effects it causes.     *)
(***************************************************************************)
EXTENDS Integers, Sequences, FiniteSets, TLC

VARIABLES
    \* ---- App (src/App.tsx) ----
    activeClause,   \* NoClause or [doc, page]: the viewer session's props
    \* ---- ClauseModal state (src/unnamed/part_000) ----
    currentPage, totalPages, loading, viewerError, scale,
    pdfDocRef,      \* NoDoc or the document the decoded handle belongs to
    renderTaskRef,  \* NoTask, SettledTask or the slot of a running render task
    loads,          \* slot -> pending pdfjsLib.getDocument of a loadPdf call
    renders,        \* slot -> renderPage call that has not returned yet
    canvas,         \* Blank or <<page, scale>>: the last drawing completed on the canvas
    lastRequest,    \* NoRequest or <<page, scale>> of the latest renderPage call
    leakedDoc,      \* a decoded document is alive and no ref leads to it
    \* ---- ClauseModal window geometry ----
    pos, size, isDragging, isResizing, dragStart, sizeStart,
    pointer,        \* coordinates of the last mouse event
    \* ---- App: library and conversation (src/App.tsx) ----
    documents,      \* sequence of document ids
    chatHistory,    \* sequence of messages [id, role, timestamp]
    inputText,      \* sequence of characters
    isAsking, appError, isLoadingLibrary, isProcessingFile,
    asks,           \* slot -> handleAsk call that has not returned yet
    appLoad,        \* loadAppData: what Promise.all is waiting for
    upload,         \* handleFileUpload call that has not returned yet
    \* ---- IndexedDB (src/services/storageService.ts) ----
    docStore,       \* ids of the records of the documents store
    chatStore,      \* set of the records of the chat_history store
    docQ, chatQ,    \* requests issued and not settled, oldest first
    \* ---- environment and history ----
    now,            \* the wall clock, in milliseconds
    usedIds,        \* message UUIDs handed out so far
    remoteCalls,    \* number of queryStandards invocations so far
    lastAsk,        \* why handleAsk last returned early, since the input changed
    clearPhase,     \* "issued": a clear is pending; "done": it completed; "no":
                    \* a question was accepted since the last clear was issued
    cited,          \* the citation last activated, until the reader navigates
    \* ---- IndexedDB transactions (src/services/storageService.ts) ----
    txs,            \* readwrite transactions with a put request, not finished
    savedOk         \* store and key of every save whose promise has resolved

viewerVars == <<activeClause, currentPage, totalPages, loading, viewerError,
                scale, pdfDocRef, renderTaskRef, loads, renders, canvas,
                lastRequest, leakedDoc>>
geomVars == <<pos, size, isDragging, isResizing, dragStart, sizeStart, pointer>>
appVars == <<documents, chatHistory, inputText, isAsking, appError,
             isLoadingLibrary, isProcessingFile, asks, appLoad, upload>>
storeVars == <<docStore, chatStore, docQ, chatQ>>
histVars == <<now, usedIds, remoteCalls, lastAsk, clearPhase>>
chatVars == <<appVars, storeVars, histVars>>
citeVars == <<cited>>
txVars == <<txs, savedOk>>
vars == <<viewerVars, geomVars, chatVars, citeVars, txVars>>

----------------------------------------------------------------------------
\* Bounds of the model
MaxLoads == 2
MaxRenders == 2
MaxExtent == 1000
MaxOffset == 200
MaxZoomLoads == 1
MaxZoomSteps == 1
MaxMsgs == 3
MaxAsks == 2
MaxTime == 1
MaxClears == 1
MaxDeletes == 1
MaxLibrary == 3
MaxCiteLoads == 1
MaxTxs == 2

\* Program constants
ZoomMin == 2
ZoomMax == 16
ZoomDefault == 4
MinWidth == 400
MinHeight == 300
CapWidth == 1000
CapHeight == 850

NoClause == [doc |-> 0, page |-> 0]
NoDoc == 0
NoTask == 0
SettledTask == -1
Blank == <<0, 0>>
NoRequest == <<0, 0>>

Docs == {1}
NumPages(d) == IF d = 1 THEN 2 ELSE 3
CitationPages == {0, 5}
Viewports == {<<400, 300>>, <<1200, 1000>>}
Coords == {0, 700}
MsgIds == 1..MaxMsgs
Texts == {<<>>, <<" ">>, <<"q">>}

Max(a, b) == IF a >= b THEN a ELSE b
Min(a, b) == IF a <= b THEN a ELSE b

isOpen == activeClause # NoClause

NoCite == [standard |-> <<>>, page |-> 0, hasPage |-> FALSE, how |-> "none"]

NoMsg == [id |-> 0, role |-> "none", timestamp |-> 0]
NoUpload == [pc |-> "idle", files |-> <<>>, newDocs |-> <<>>]
LoadPending == [pc |-> "pending", gotDocs |-> FALSE, docs |-> <<>>,
                gotChat |-> FALSE, chat |-> <<>>]
LoadSettled == [pc |-> "settled", gotDocs |-> FALSE, docs |-> <<>>,
                gotChat |-> FALSE, chat |-> <<>>]
GetAllRequest == [op |-> "getAll", msg |-> NoMsg, ask |-> 0]
ClearRequest == [op |-> "clear", msg |-> NoMsg, ask |-> 0]

Range(s) == {s[i] : i \in DOMAIN s}

\* String.prototype.trim on a sequence of characters
RECURSIVE TrimStart(_)
TrimStart(s) ==
    IF s # <<>> /\ Head(s) = " " THEN TrimStart(Tail(s)) ELSE s

RECURSIVE TrimEnd(_)
TrimEnd(s) ==
    IF s # <<>> /\ s[Len(s)] = " " THEN TrimEnd(SubSeq(s, 1, Len(s) - 1)) ELSE s

Trim(s) == TrimEnd(TrimStart(s))

\* String.prototype.toLowerCase, character by character
Lower(c) ==
    CASE c = "A" -> "a"
      [] c = "B" -> "b"
      [] c = "C" -> "c"
      [] c = "P" -> "p"
      [] c = "D" -> "d"
      [] c = "F" -> "f"
      [] OTHER -> c

toLowerCase(s) == [i \in DOMAIN s |-> Lower(s[i])]

\* s.replace(/\.pdf$/i, ''): one trailing extension is removed, in any case
StripPdf(s) ==
    IF Len(s) >= 4
       /\ toLowerCase(SubSeq(s, Len(s) - 3, Len(s))) = <<".", "p", "d", "f">>
    THEN SubSeq(s, 1, Len(s) - 4)
    ELSE s

\* String.prototype.includes
Includes(s, sub) ==
    \E i \in 0..(Len(s) - Len(sub)) : SubSeq(s, i + 1, i + Len(sub)) = sub

Abs(n) == IF n < 0 THEN -n ELSE n

\* the file names of the documents a library may hold, by document id
LibraryDocs == {1, 2, 3}
DocName(d) ==
    CASE d = 1 -> <<"a", "b", ".", "p", "d", "f">>
      [] d = 2 -> <<"A", "B">>
      [] OTHER -> <<"a", "b", "c", ".", "P", "D", "F">>

\* the names a citation may carry in its standard field
CiteNames ==
    { <<"a", "b">>, <<" ", "A", "B", ".", "p", "d", "f">>,
      <<"a", "b", ".", "p", "d", "f">>, <<"c">>, <<"z">>, <<>> }

\* handleCitationClick: target and targetNoExt of a citation's standard
Target(std) == Trim(toLowerCase(std))
TargetNoExt(std) == StripPdf(Target(std))

\* handleCitationClick: docName and docNameNoExt of a document
docName(d) == toLowerCase(DocName(d))
docNameNoExt(d) == StripPdf(docName(d))

\* the predicate of documents.find in the first pass
ExactMatch(d, std) ==
    docName(d) = Target(std) \/ docNameNoExt(d) = TargetNoExt(std)

\* the predicate of documents.filter in the second pass
FuzzyMatch(d, std) ==
    \/ Includes(docNameNoExt(d), TargetNoExt(std))
    \/ Includes(TargetNoExt(std), docNameNoExt(d))

\* Array.prototype.find: the first element that satisfies the predicate
RECURSIVE FindExact(_, _)
FindExact(docs, std) ==
    IF docs = <<>> THEN NoDoc
    ELSE IF ExactMatch(Head(docs), std) THEN Head(docs)
    ELSE FindExact(Tail(docs), std)

Candidates(docs, std) == SelectSeq(docs, LAMBDA d : FuzzyMatch(d, std))

\* the comparator's key: Math.abs(a.name.length - citation.standard.length)
Distance(d, std) == Abs(Len(DocName(d)) - Len(std))

\* Array.prototype.sort with that comparator: stable, ascending
RECURSIVE InsertByDistance(_, _, _)
InsertByDistance(sorted, d, std) ==
    IF sorted = <<>> THEN <<d>>
    ELSE IF Distance(Head(sorted), std) <= Distance(d, std)
         THEN <<Head(sorted)>> \o InsertByDistance(Tail(sorted), d, std)
         ELSE <<d>> \o sorted

RECURSIVE SortByDistance(_, _)
SortByDistance(docs, std) ==
    IF docs = <<>> THEN <<>>
    ELSE InsertByDistance(SortByDistance(SubSeq(docs, 1, Len(docs) - 1), std),
                          docs[Len(docs)], std)

\* the second pass alone: candidates[0] after the sort, or nothing
FindFuzzy(docs, std) ==
    LET candidates == SortByDistance(Candidates(docs, std), std)
    IN  IF candidates = <<>> THEN NoDoc ELSE Head(candidates)

\* a resolution that falls back on the first document of the library
ResolveCitationAnyDocument(docs, std) ==
    IF docs = <<>> THEN NoDoc ELSE Head(docs)

\* a resolution that skips the first pass
ResolveCitationFuzzyOnly(docs, std) == FindFuzzy(docs, std)

\* handleCitationClick: the document the citation resolves to, or NoDoc
ResolveCitation(docs, std) ==
    IF FindExact(docs, std) # NoDoc
    THEN FindExact(docs, std)
    ELSE FindFuzzy(docs, std)

\* store.put: the record replaces the one with the same key
Put(store, m) == {x \in store : x.id # m.id} \cup {m}

\* store.getAll: the records in the order of their keys
RECURSIVE KeyOrder(_)
KeyOrder(S) ==
    IF S = {} THEN <<>>
    ELSE LET m == CHOOSE x \in S : \A y \in S : x.id <= y.id
         IN  <<m>> \o KeyOrder(S \ {m})

\* Array.prototype.sort by timestamp: stable, equal timestamps keep their order
InsertStable(m, s) ==
    LET k == Cardinality({i \in DOMAIN s : s[i].timestamp <= m.timestamp})
    IN  SubSeq(s, 1, k) \o <<m>> \o SubSeq(s, k + 1, Len(s))

RECURSIVE SortByTimestamp(_)
SortByTimestamp(s) ==
    IF s = <<>> THEN <<>>
    ELSE InsertStable(s[Len(s)], SortByTimestamp(SubSeq(s, 1, Len(s) - 1)))

\* What getChatHistory resolves with
GetChatHistory(store) == SortByTimestamp(KeyOrder(store))

\* What getAllDocuments resolves with
RECURSIVE GetAllDocuments(_)
GetAllDocuments(S) ==
    IF S = {} THEN <<>>
    ELSE LET d == CHOOSE x \in S : \A y \in S : x <= y
         IN  <<d>> \o GetAllDocuments(S \ {d})

----------------------------------------------------------------------------
\* Slots of the pending decodes and of the running renderPage calls

FreeSlot(f) ==
    CHOOSE i \in 1..(Cardinality(DOMAIN f) + 1) :
        i \notin DOMAIN f /\ \A j \in 1..(i - 1) : j \in DOMAIN f

Without(f, i) == [j \in DOMAIN f \ {i} |-> f[j]]

\* renderTaskRef.current after the task in slot r has settled
RefAfter(r) == IF renderTaskRef = r THEN SettledTask ELSE renderTaskRef

\* A call that can no longer draw: what it was asked to draw plays no part
Stopped(r, why) == [page |-> 0, sc |-> 0, phase |-> r.phase, st |-> why]

\* renderTaskRef.current.cancel(): a settled task ignores it
CancelTask(rs) ==
    IF renderTaskRef \in DOMAIN rs
    THEN [rs EXCEPT ![renderTaskRef] = Stopped(@, "cancelled")]
    ELSE rs

\* A renderPage that cancels the running task and returns
RenderPageCancelOnly(st, doc, num, sc) ==
    [renders |-> CancelTask(st.renders), last |-> st.last]

\* renderPage(num, currentScale) up to its first await, with pdfDocRef.current
\* = doc and the canvas mounted.  st is [renders, last].
RenderPage(st, doc, num, sc) ==
    IF doc = NoDoc THEN st
    ELSE LET pageNum == Max(1, Min(num, NumPages(doc)))
             rs == CancelTask(st.renders)
         IN  [renders |-> rs @@ (FreeSlot(rs) :>
                            [page |-> pageNum, sc |-> sc, phase |-> "getPage",
                             st |-> "ref"]),
              last |-> <<pageNum, sc>>]

\* The render effect: runs when one of its dependencies changed
RenderEffect(st, changed, doc, isLoading, page, sc) ==
    IF changed /\ doc # NoDoc /\ ~isLoading
    THEN RenderPage(st, doc, page, sc)
    ELSE st

\* The load effect's cleanup: cancel the task in renderTaskRef, destroy the
\* document in pdfDocRef (its pages' pending work dies with it)
Cleanup(rs) ==
    LET c == CancelTask(rs)
    IN  IF pdfDocRef = NoDoc THEN c
        ELSE [r \in DOMAIN c |->
                 IF c[r].st = "ref" THEN Stopped(c[r], "dead") ELSE c[r]]

\* loadPdf up to its await: a new pending decode
StartLoad(ls, d, p, sc) ==
    ls @@ (FreeSlot(ls) :> [doc |-> d, page |-> p, sc |-> sc, cur |-> TRUE])

OpeningSize(vp) ==
    [width |-> Min((9 * vp[1]) \div 10, CapWidth),
     height |-> Min((9 * vp[2]) \div 10, CapHeight)]

OpeningPos(vp) ==
    [x |-> (vp[1] - OpeningSize(vp).width) \div 2,
     y |-> (vp[2] - OpeningSize(vp).height) \div 2]

\* citation.page || 1, floored at 1
CitationPage(p) == Max(1, IF p = 0 THEN 1 ELSE p)

----------------------------------------------------------------------------
Init ==
    /\ activeClause = NoClause
    /\ currentPage = 1 /\ totalPages = 0 /\ loading = TRUE
    /\ viewerError = "none" /\ scale = ZoomDefault
    /\ pdfDocRef = NoDoc /\ renderTaskRef = NoTask
    /\ loads = <<>> /\ renders = <<>>
    /\ canvas = Blank /\ lastRequest = NoRequest /\ leakedDoc = FALSE
    /\ pos = [x |-> 0, y |-> 0] /\ size = [width |-> 900, height |-> 800]
    /\ isDragging = FALSE /\ isResizing = FALSE
    /\ dragStart = [x |-> 0, y |-> 0] /\ sizeStart = [w |-> 0, h |-> 0]
    /\ pointer = [x |-> 0, y |-> 0]
    /\ documents = <<>> /\ chatHistory = <<>> /\ inputText = <<>>
    /\ isAsking = FALSE /\ appError = "none"
    /\ isLoadingLibrary = TRUE /\ isProcessingFile = FALSE
    /\ asks = <<>> /\ appLoad = LoadPending /\ upload = NoUpload
    /\ docStore = {} /\ chatStore = {}
    /\ docQ = <<[op |-> "getAll", doc |-> 0]>> /\ chatQ = <<GetAllRequest>>
    /\ now = 0 /\ usedIds = {} /\ remoteCalls = 0
    /\ lastAsk = "none" /\ clearPhase = "no"
    /\ cited = NoCite
    /\ txs = <<>> /\ savedOk = {}

\* setActiveClause(clause) and the mount or the update of ClauseModal that the
\* next render brings
ShowClause(clause, vp, cap) ==
    /\ Cardinality(DOMAIN loads) < cap
    /\ activeClause' = clause
    /\ IF ~isOpen
       THEN \* mount: fresh state and refs, geometry effect, load effect
            /\ currentPage' = Max(1, clause.page)
            /\ totalPages' = 0
            /\ loading' = TRUE
            /\ viewerError' = "none"
            /\ scale' = ZoomDefault
            /\ pdfDocRef' = NoDoc
            /\ renderTaskRef' = NoTask
            /\ renders' = <<>>
            /\ loads' = StartLoad(loads, clause.doc, clause.page, ZoomDefault)
            /\ canvas' = Blank
            /\ lastRequest' = NoRequest
            /\ size' = OpeningSize(vp)
            /\ pos' = OpeningPos(vp)
            /\ UNCHANGED <<leakedDoc, isDragging, isResizing, dragStart,
                           sizeStart, pointer>>
       ELSE IF clause # activeClause
       THEN \* pdfData or initialPage changed: the load effect runs again
            /\ renders' = Cleanup(renders)
            /\ pdfDocRef' = NoDoc
            /\ loads' = StartLoad(loads, clause.doc, clause.page, scale)
            /\ loading' = TRUE
            /\ viewerError' = "none"
            /\ UNCHANGED <<currentPage, totalPages, scale, renderTaskRef,
                           canvas, lastRequest, leakedDoc, geomVars>>
       ELSE \* the same props: no effect runs
            UNCHANGED <<currentPage, totalPages, loading, viewerError,
                        scale, pdfDocRef, renderTaskRef, loads, renders,
                        canvas, lastRequest, leakedDoc, geomVars>>

\* handleCitationClick with a citation that resolves to the document d and
\* carries the page p
OpenViewer(d, p, vp, cap) ==
    /\ ShowClause([doc |-> d, page |-> CitationPage(p)], vp, cap)
    /\ appError' = "none"
    /\ UNCHANGED <<documents, chatHistory, inputText, isAsking,
                   isLoadingLibrary, isProcessingFile, asks, appLoad, upload,
                   storeVars, histVars, citeVars, txVars>>

\* onClose: setActiveClause(null) unmounts ClauseModal; the load effect's
\* cleanup runs, the component's state and refs are gone
Close ==
    /\ isOpen
    /\ activeClause' = NoClause
    /\ currentPage' = 1 /\ totalPages' = 0 /\ loading' = TRUE
    /\ viewerError' = "none" /\ scale' = ZoomDefault
    /\ pdfDocRef' = NoDoc /\ renderTaskRef' = NoTask
    /\ renders' = <<>>
    /\ loads' = [l \in DOMAIN loads |-> [loads[l] EXCEPT !.cur = FALSE]]
    /\ canvas' = Blank /\ lastRequest' = NoRequest
    /\ pos' = [x |-> 0, y |-> 0] /\ size' = [width |-> 900, height |-> 800]
    /\ isDragging' = FALSE /\ isResizing' = FALSE
    /\ dragStart' = [x |-> 0, y |-> 0] /\ sizeStart' = [w |-> 0, h |-> 0]
    /\ pointer' = [x |-> 0, y |-> 0]
    /\ cited' = NoCite
    /\ UNCHANGED <<leakedDoc, chatVars, txVars>>

\* setScale: a changed scale re-runs the load effect (cleanup, then loadPdf);
\* the render effect then finds pdfDocRef empty
SetScale(newScale, cap) ==
    /\ isOpen
    /\ IF newScale = scale
       THEN UNCHANGED vars
       ELSE /\ Cardinality(DOMAIN loads) < cap
            /\ scale' = newScale
            /\ renders' = Cleanup(renders)
            /\ pdfDocRef' = NoDoc
            /\ loads' = StartLoad(loads, activeClause.doc, activeClause.page, newScale)
            /\ loading' = TRUE
            /\ viewerError' = "none"
            /\ UNCHANGED <<activeClause, currentPage, totalPages, renderTaskRef,
                           canvas, lastRequest, leakedDoc, geomVars, chatVars, citeVars, txVars>>

\* A zoom-in step that forgets the upper limit
ZoomInScaleUnclamped(prev) == prev + 1

ZoomOutScale(prev) == Max(ZoomMin, prev - 1)
ZoomInScale(prev) == Min(ZoomMax, prev + 1)

\* The zoom buttons; the model explores the factors lo..hi
ZoomOut(lo, cap) == scale >= lo /\ SetScale(ZoomOutScale(scale), cap)
ZoomIn(hi, cap) == scale <= hi /\ SetScale(ZoomInScale(scale), cap)
ResetZoom(cap) == SetScale(ZoomDefault, cap)

\* setCurrentPage, then the render effect
SetCurrentPage(newPage) ==
    LET st == RenderEffect([renders |-> renders, last |-> lastRequest],
                           newPage # currentPage, pdfDocRef, loading, newPage, scale)
    IN  /\ Cardinality(DOMAIN st.renders) <= MaxRenders
        /\ currentPage' = newPage
        /\ renders' = st.renders
        /\ lastRequest' = st.last
        /\ UNCHANGED <<activeClause, totalPages, loading, viewerError, scale,
                       pdfDocRef, renderTaskRef, loads, canvas, leakedDoc,
                       geomVars, chatVars, txVars>>
        /\ cited' = NoCite

PreviousPage ==
    /\ isOpen
    /\ ~(currentPage <= 1 \/ loading)
    /\ SetCurrentPage(Max(1, currentPage - 1))

NextPage ==
    /\ isOpen
    /\ ~(currentPage >= totalPages \/ loading)
    /\ SetCurrentPage(Min(totalPages, currentPage + 1))

\* loadingTask.promise resolves: the rest of loadPdf's try block
DecodeResolve(l) ==
    /\ l \in DOMAIN loads
    /\ loads' = Without(loads, l)
    /\ IF ~loads[l].cur
       THEN \* the component is gone: its refs keep the document, nobody destroys it
            /\ leakedDoc' = TRUE
            /\ UNCHANGED <<activeClause, currentPage, totalPages, loading,
                           viewerError, scale, pdfDocRef, renderTaskRef, renders,
                           canvas, lastRequest, geomVars, chatVars, citeVars, txVars>>
       ELSE LET doc == loads[l].doc
                startPage == Max(1, Min(loads[l].page, NumPages(doc)))
                rs0 == [r \in DOMAIN renders |->
                           IF renders[r].st = "ref"
                           THEN [renders[r] EXCEPT !.st = "orphan"] ELSE renders[r]]
                st1 == RenderPage([renders |-> rs0, last |-> lastRequest],
                                  doc, startPage, loads[l].sc)
                st2 == RenderEffect(st1, startPage # currentPage, doc, loading,
                                    startPage, scale)
            IN  /\ Cardinality(DOMAIN st2.renders) <= MaxRenders
                /\ pdfDocRef' = doc
                /\ leakedDoc' = (leakedDoc \/ pdfDocRef # NoDoc)
                /\ totalPages' = NumPages(doc)
                /\ currentPage' = startPage
                /\ renders' = st2.renders
                /\ lastRequest' = st2.last
                /\ UNCHANGED <<activeClause, loading, viewerError, scale,
                               renderTaskRef, canvas, geomVars, chatVars, citeVars, txVars>>

\* setError / setLoading(false) of a catch block, then the render effect
FailWith(rs, reason) ==
    LET st == RenderEffect([renders |-> rs, last |-> lastRequest],
                           loading, pdfDocRef, FALSE, currentPage, scale)
    IN  /\ Cardinality(DOMAIN st.renders) <= MaxRenders
        /\ viewerError' = reason
        /\ loading' = FALSE
        /\ renders' = st.renders
        /\ lastRequest' = st.last

\* loadingTask.promise rejects: loadPdf's catch block
DecodeReject(l) ==
    /\ l \in DOMAIN loads
    /\ loads' = Without(loads, l)
    /\ IF ~loads[l].cur
       THEN UNCHANGED <<activeClause, currentPage, totalPages, loading,
                        viewerError, scale, pdfDocRef, renderTaskRef, renders,
                        canvas, lastRequest, leakedDoc, geomVars, chatVars, citeVars, txVars>>
       ELSE /\ FailWith(renders, "load")
            /\ UNCHANGED <<activeClause, currentPage, totalPages, scale,
                           pdfDocRef, renderTaskRef, canvas, leakedDoc, geomVars, chatVars, citeVars, txVars>>

\* The canvas is in use by a render task that is still drawing
CanvasInUse ==
    \E q \in DOMAIN renders :
        renders[q].phase = "render" /\ renders[q].st \in {"ref", "orphan"}

\* getPage resolves: the canvas is resized, page.render starts.  pdf.js
\* rejects a render task started on a canvas that is in use.
GetPageResolve(r) ==
    /\ r \in DOMAIN renders
    /\ renders[r].phase = "getPage"
    /\ renders[r].st \in {"ref", "orphan"}
    /\ renders' = [renders EXCEPT ![r] =
                      IF CanvasInUse
                      THEN [Stopped(@, "refused") EXCEPT !.phase = "render"]
                      ELSE [@ EXCEPT !.phase = "render"]]
    /\ renderTaskRef' = r
    /\ UNCHANGED <<activeClause, currentPage, totalPages, loading, viewerError,
                   scale, pdfDocRef, loads, canvas, lastRequest, leakedDoc, geomVars, chatVars, citeVars, txVars>>

\* getPage rejects (always so once the document is destroyed): renderPage's catch
GetPageReject(r) ==
    /\ r \in DOMAIN renders
    /\ renders[r].phase = "getPage"
    /\ FailWith(Without(renders, r), "render")
    /\ UNCHANGED <<activeClause, currentPage, totalPages, scale, pdfDocRef,
                   renderTaskRef, loads, canvas, leakedDoc, geomVars, chatVars, citeVars, txVars>>

\* renderTask.promise resolves: the page is drawn, setLoading(false)
RenderDone(r) ==
    /\ r \in DOMAIN renders
    /\ renders[r].phase = "render"
    /\ renders[r].st \in {"ref", "orphan"}
    /\ LET st == RenderEffect([renders |-> Without(renders, r), last |-> lastRequest],
                              loading, pdfDocRef, FALSE, currentPage, scale)
       IN  /\ Cardinality(DOMAIN st.renders) <= MaxRenders
           /\ renders' = st.renders
           /\ lastRequest' = st.last
    /\ canvas' = <<renders[r].page, renders[r].sc>>
    /\ loading' = FALSE
    /\ renderTaskRef' = RefAfter(r)
    /\ UNCHANGED <<activeClause, currentPage, totalPages, viewerError, scale,
                   pdfDocRef, loads, leakedDoc, geomVars, chatVars, citeVars, txVars>>

\* renderTask.promise rejects with a drawing failure: renderPage's catch
RenderFail(r) ==
    /\ r \in DOMAIN renders
    /\ renders[r].phase = "render"
    /\ renders[r].st # "cancelled"
    /\ FailWith(Without(renders, r), "render")
    /\ renderTaskRef' = RefAfter(r)
    /\ UNCHANGED <<activeClause, currentPage, totalPages, scale, pdfDocRef,
                   loads, canvas, leakedDoc, geomVars, chatVars, citeVars, txVars>>

\* renderTask.promise rejects with RenderingCancelledException: plain return
RenderCancelled(r) ==
    /\ r \in DOMAIN renders
    /\ renders[r].phase = "render"
    /\ renders[r].st \in {"cancelled", "dead"}
    /\ renders' = Without(renders, r)
    /\ renderTaskRef' = RefAfter(r)
    /\ UNCHANGED <<activeClause, currentPage, totalPages, loading, viewerError,
                   scale, pdfDocRef, loads, canvas, lastRequest, leakedDoc, geomVars, chatVars, citeVars, txVars>>

DefaultViewport == <<1200, 1000>>

NextViewer ==
    \/ \E d \in Docs, p \in CitationPages : OpenViewer(d, p, DefaultViewport, MaxLoads)
    \/ Close
    \/ ZoomOut(ZoomDefault + 1, MaxLoads)
    \/ ZoomIn(ZoomDefault + MaxZoomSteps - 1, MaxLoads)
    \/ ResetZoom(MaxLoads)
    \/ PreviousPage
    \/ NextPage
    \/ \E l \in 1..MaxLoads : DecodeResolve(l)
    \/ \E l \in 1..MaxLoads : DecodeReject(l)
    \/ \E r \in 1..MaxRenders : GetPageResolve(r)
    \/ \E r \in 1..MaxRenders : GetPageReject(r)
    \/ \E r \in 1..MaxRenders : RenderDone(r)
    \/ \E r \in 1..MaxRenders : RenderFail(r)
    \/ \E r \in 1..MaxRenders : RenderCancelled(r)

SpecViewer == Init /\ [][NextViewer]_vars

\* The zoom buttons over their whole range, pressed while no decode is
\* pending: decodes settle, getPage stays pending or fails
NextZoom ==
    \/ \E d \in Docs, p \in CitationPages : OpenViewer(d, p, DefaultViewport, MaxZoomLoads)
    \/ Close
    \/ ZoomOut(ZoomMin, MaxZoomLoads)
    \/ ZoomIn(ZoomMax, MaxZoomLoads)
    \/ ResetZoom(MaxZoomLoads)
    \/ \E l \in 1..MaxLoads : DecodeResolve(l)
    \/ \E l \in 1..MaxLoads : DecodeReject(l)
    \/ \E r \in 1..MaxRenders : GetPageReject(r)

SpecZoom == Init /\ [][NextZoom]_vars

\* One session at a time: a citation opens the viewer only when it is closed,
\* so every decode after the first one of a session comes from a zoom change.
\* pdf.js fails only the getPage calls of a destroyed document.
NextSession ==
    \/ \E d \in Docs, p \in CitationPages :
          ~isOpen /\ OpenViewer(d, p, DefaultViewport, MaxLoads)
    \/ Close
    \/ ZoomOut(ZoomDefault + 1, MaxLoads)
    \/ ZoomIn(ZoomDefault + MaxZoomSteps - 1, MaxLoads)
    \/ ResetZoom(MaxLoads)
    \/ PreviousPage
    \/ NextPage
    \/ \E l \in 1..MaxLoads : DecodeResolve(l)
    \/ \E r \in 1..MaxRenders : GetPageResolve(r)
    \/ \E r \in DOMAIN renders : renders[r].st = "dead" /\ GetPageReject(r)
    \/ \E r \in 1..MaxRenders : RenderDone(r)
    \/ \E r \in 1..MaxRenders : RenderCancelled(r)

SpecSession == Init /\ [][NextSession]_vars

\* One session from opening to closing with zoom changes at any moment, every
\* pdf.js call ending in any of its outcomes
NextProgress ==
    \/ \E d \in Docs, p \in CitationPages :
          ~isOpen /\ OpenViewer(d, p, DefaultViewport, MaxLoads)
    \/ Close
    \/ ZoomIn(ZoomDefault + MaxZoomSteps - 1, MaxLoads)
    \/ ResetZoom(MaxLoads)
    \/ \E l \in 1..MaxLoads : DecodeResolve(l)
    \/ \E l \in 1..MaxLoads : DecodeReject(l)
    \/ \E r \in 1..MaxRenders : GetPageResolve(r)
    \/ \E r \in 1..MaxRenders : GetPageReject(r)
    \/ \E r \in 1..MaxRenders : RenderDone(r)
    \/ \E r \in 1..MaxRenders : RenderFail(r)
    \/ \E r \in 1..MaxRenders : RenderCancelled(r)

\* Every decode, getPage and render promise settles: the continuation after
\* each await of loadPdf and renderPage runs
CallsSettle ==
    /\ \A l \in 1..MaxLoads : WF_vars(DecodeResolve(l) \/ DecodeReject(l))
    /\ \A r \in 1..MaxRenders :
          /\ WF_vars(GetPageResolve(r) \/ GetPageReject(r))
          /\ WF_vars(RenderDone(r) \/ RenderFail(r) \/ RenderCancelled(r))

SpecProgress == Init /\ [][NextProgress]_vars /\ CallsSettle

----------------------------------------------------------------------------
\* Window geometry.  The pointer has one button: a press follows a release,
\* and a release clears isDragging and isResizing.

\* handleMouseDown on the drag handle
handleMouseDown(cx, cy) ==
    /\ isOpen /\ ~isDragging /\ ~isResizing
    /\ pos.x <= MaxOffset /\ pos.x >= -MaxOffset
    /\ pos.y <= MaxOffset /\ pos.y >= -MaxOffset
    /\ isDragging' = TRUE
    /\ dragStart' = [x |-> cx - pos.x, y |-> cy - pos.y]
    /\ pointer' = [x |-> cx, y |-> cy]
    /\ UNCHANGED <<viewerVars, chatVars, citeVars, txVars, pos, size, isResizing, sizeStart>>

handleResizeStart(cx, cy) ==
    /\ isOpen /\ ~isDragging /\ ~isResizing
    /\ size.width <= MaxExtent /\ size.height <= MaxExtent
    /\ isResizing' = TRUE
    /\ dragStart' = [x |-> cx, y |-> cy]
    /\ sizeStart' = [w |-> size.width, h |-> size.height]
    /\ pointer' = [x |-> cx, y |-> cy]
    /\ UNCHANGED <<viewerVars, chatVars, citeVars, txVars, pos, size, isDragging>>

\* A resize move that forgets the floor of the height
ResizedSizeNoHeightFloor(cx, cy) ==
    LET deltaX == cx - dragStart.x
        deltaY == cy - dragStart.y
    IN  [width |-> Max(MinWidth, sizeStart.w + deltaX),
         height |-> sizeStart.h + deltaY]

\* The size a resize move sets
ResizedSize(cx, cy) ==
    LET deltaX == cx - dragStart.x
        deltaY == cy - dragStart.y
    IN  [width |-> Max(MinWidth, sizeStart.w + deltaX),
         height |-> Max(MinHeight, sizeStart.h + deltaY)]

\* The window listener installed while dragging or resizing
handleMouseMove(cx, cy) ==
    /\ isOpen
    /\ isDragging \/ isResizing
    /\ pos' = IF isDragging
              THEN [x |-> cx - dragStart.x, y |-> cy - dragStart.y]
              ELSE pos
    /\ size' = IF isResizing THEN ResizedSize(cx, cy) ELSE size
    /\ pointer' = [x |-> cx, y |-> cy]
    /\ UNCHANGED <<viewerVars, chatVars, citeVars, txVars, isDragging, isResizing, dragStart, sizeStart>>

handleMouseUp ==
    /\ isOpen
    /\ isDragging \/ isResizing
    /\ isDragging' = FALSE
    /\ isResizing' = FALSE
    /\ UNCHANGED <<viewerVars, chatVars, citeVars, txVars, pos, size, dragStart, sizeStart, pointer>>

NextGeom ==
    \/ \E d \in Docs, vp \in Viewports : OpenViewer(d, 0, vp, MaxLoads)
    \/ Close
    \/ \E cx \in Coords, cy \in Coords : handleMouseDown(cx, cy)
    \/ \E cx \in Coords, cy \in Coords : handleResizeStart(cx, cy)
    \/ \E cx \in Coords, cy \in Coords : handleMouseMove(cx, cy)
    \/ handleMouseUp

SpecGeom == Init /\ [][NextGeom]_vars

----------------------------------------------------------------------------
\* The conversation.  Each object store settles its requests in the order in
\* which they were issued; the continuation of the awaiting function runs in
\* the same turn as the request's success or error event.

\* onChange of the question input
SetInputText(t) ==
    /\ ~(documents = <<>> \/ isAsking)
    /\ t # inputText
    /\ inputText' = t
    /\ lastAsk' = "none"
    /\ UNCHANGED <<viewerVars, geomVars, citeVars, txVars, storeVars, documents, chatHistory,
                   isAsking, appError, isLoadingLibrary, isProcessingFile,
                   asks, appLoad, upload, now, usedIds, remoteCalls,
                   clearPhase>>

\* A guard that forgets the document list
AskRefusedWithoutDocumentCheck == Trim(inputText) = <<>> \/ isAsking

\* handleAsk's guard
AskRefused == Trim(inputText) = <<>> \/ isAsking \/ documents = <<>>

\* handleAsk up to its first await: the user message is appended and its
\* put is issued
handleAsk ==
    IF AskRefused
    THEN /\ lastAsk' = (IF documents = <<>> THEN "noDocuments" ELSE "refused")
         /\ UNCHANGED <<viewerVars, geomVars, citeVars, txVars, appVars, storeVars, now, usedIds,
                        remoteCalls, clearPhase>>
    ELSE \E id \in MsgIds \ usedIds :
            LET userMsg == [id |-> id, role |-> "user", timestamp |-> now]
                a == FreeSlot(asks)
            IN  /\ Cardinality(DOMAIN asks) < MaxAsks
                /\ chatHistory' = Append(chatHistory, userMsg)
                /\ chatQ' = Append(chatQ, [op |-> "put", msg |-> userMsg, ask |-> a])
                /\ asks' = asks @@ (a :> [pc |-> "saveUser", user |-> userMsg,
                                          saved |-> FALSE])
                /\ usedIds' = usedIds \cup {id}
                /\ lastAsk' = "none"
                /\ clearPhase' = "no"
                /\ UNCHANGED <<viewerVars, geomVars, citeVars, txVars, documents, inputText, isAsking,
                               appError, isLoadingLibrary, isProcessingFile,
                               appLoad, upload, docStore, chatStore, docQ, now,
                               remoteCalls>>

\* The oldest request on the chat store is the put of a message with this role
PutIsNext(role) ==
    /\ chatQ # <<>>
    /\ Head(chatQ).op = "put"
    /\ Head(chatQ).msg.role = role

\* saveChatMessage(userMsg) resolves: the input is emptied, the asking flag
\* raised, the error cleared, queryStandards invoked
SaveUserDone ==
    /\ PutIsNext("user")
    /\ chatQ' = Tail(chatQ)
    /\ chatStore' = Put(chatStore, Head(chatQ).msg)
    /\ inputText' = <<>>
    /\ isAsking' = TRUE
    /\ appError' = "none"
    /\ remoteCalls' = remoteCalls + 1
    /\ asks' = [asks EXCEPT ![Head(chatQ).ask] =
                   [@ EXCEPT !.pc = "remote", !.saved = TRUE]]
    /\ UNCHANGED <<viewerVars, geomVars, citeVars, txVars, documents, chatHistory,
                   isLoadingLibrary, isProcessingFile, appLoad, upload,
                   docStore, docQ, now, usedIds, lastAsk, clearPhase>>

\* A failed put of the user message that is swallowed: the ask goes on
SaveUserFailSwallowed ==
    /\ PutIsNext("user")
    /\ chatQ' = Tail(chatQ)
    /\ inputText' = <<>>
    /\ isAsking' = TRUE
    /\ appError' = "none"
    /\ remoteCalls' = remoteCalls + 1
    /\ asks' = [asks EXCEPT ![Head(chatQ).ask].pc = "remote"]
    /\ UNCHANGED <<viewerVars, geomVars, citeVars, txVars, documents, chatHistory,
                   isLoadingLibrary, isProcessingFile, appLoad, upload,
                   docStore, chatStore, docQ, now, usedIds, lastAsk, clearPhase>>

\* saveChatMessage(userMsg) rejects outside the try block: handleAsk ends
SaveUserFail ==
    /\ PutIsNext("user")
    /\ chatQ' = Tail(chatQ)
    /\ asks' = Without(asks, Head(chatQ).ask)
    /\ UNCHANGED <<viewerVars, geomVars, citeVars, txVars, documents, chatHistory, inputText,
                   isAsking, appError, isLoadingLibrary, isProcessingFile,
                   appLoad, upload, docStore, chatStore, docQ, histVars>>

\* queryStandards resolves: the assistant message is appended and its put issued
RemoteResolve(a) ==
    /\ a \in DOMAIN asks
    /\ asks[a].pc = "remote"
    /\ \E id \in MsgIds \ usedIds :
          LET assistantMsg == [id |-> id, role |-> "assistant", timestamp |-> now]
          IN  /\ chatHistory' = Append(chatHistory, assistantMsg)
              /\ chatQ' = Append(chatQ, [op |-> "put", msg |-> assistantMsg, ask |-> a])
              /\ usedIds' = usedIds \cup {id}
    /\ asks' = [asks EXCEPT ![a].pc = "saveAsst"]
    /\ UNCHANGED <<viewerVars, geomVars, citeVars, txVars, documents, inputText, isAsking, appError,
                   isLoadingLibrary, isProcessingFile, appLoad, upload,
                   docStore, chatStore, docQ, now, remoteCalls, lastAsk,
                   clearPhase>>

\* A failure after which the asking flag stays raised
RemoteRejectKeepsAsking(a) ==
    /\ a \in DOMAIN asks
    /\ asks[a].pc = "remote"
    /\ appError' = "remote"
    /\ asks' = Without(asks, a)
    /\ UNCHANGED <<viewerVars, geomVars, citeVars, txVars, documents, chatHistory, inputText,
                   isAsking, isLoadingLibrary, isProcessingFile, appLoad, upload,
                   storeVars, histVars>>

\* queryStandards rejects: handleAsk's catch and finally
RemoteReject(a) ==
    /\ a \in DOMAIN asks
    /\ asks[a].pc = "remote"
    /\ appError' = "remote"
    /\ isAsking' = FALSE
    /\ asks' = Without(asks, a)
    /\ UNCHANGED <<viewerVars, geomVars, citeVars, txVars, documents, chatHistory, inputText,
                   isLoadingLibrary, isProcessingFile, appLoad, upload,
                   storeVars, histVars>>

\* saveChatMessage(assistantMsg) resolves: handleAsk's finally
SaveAssistantDone ==
    /\ PutIsNext("assistant")
    /\ chatQ' = Tail(chatQ)
    /\ chatStore' = Put(chatStore, Head(chatQ).msg)
    /\ isAsking' = FALSE
    /\ asks' = Without(asks, Head(chatQ).ask)
    /\ UNCHANGED <<viewerVars, geomVars, citeVars, txVars, documents, chatHistory, inputText,
                   appError, isLoadingLibrary, isProcessingFile, appLoad,
                   upload, docStore, docQ, histVars>>

\* saveChatMessage(assistantMsg) rejects: handleAsk's catch and finally
SaveAssistantFail ==
    /\ PutIsNext("assistant")
    /\ chatQ' = Tail(chatQ)
    /\ appError' = "store"
    /\ isAsking' = FALSE
    /\ asks' = Without(asks, Head(chatQ).ask)
    /\ UNCHANGED <<viewerVars, geomVars, citeVars, txVars, documents, chatHistory, inputText,
                   isLoadingLibrary, isProcessingFile, appLoad, upload,
                   docStore, chatStore, docQ, histVars>>

\* handleClearChat up to its await: the clear is issued
handleClearChat ==
    /\ Cardinality({i \in DOMAIN chatQ : chatQ[i].op = "clear"}) < MaxClears
    /\ chatQ' = Append(chatQ, ClearRequest)
    /\ clearPhase' = "issued"
    /\ UNCHANGED <<viewerVars, geomVars, citeVars, txVars, appVars, docStore, chatStore, docQ,
                   now, usedIds, remoteCalls, lastAsk>>

\* clearChatHistory resolves: setChatHistory([])
ClearDone ==
    /\ chatQ # <<>> /\ Head(chatQ).op = "clear"
    /\ chatQ' = Tail(chatQ)
    /\ chatStore' = {}
    /\ chatHistory' = <<>>
    /\ clearPhase' = (IF clearPhase = "issued" THEN "done" ELSE clearPhase)
    /\ UNCHANGED <<viewerVars, geomVars, citeVars, txVars, documents, inputText, isAsking, appError,
                   isLoadingLibrary, isProcessingFile, asks, appLoad, upload,
                   docStore, docQ, now, usedIds, remoteCalls, lastAsk>>

\* clearChatHistory rejects: handleClearChat ends
ClearFail ==
    /\ chatQ # <<>> /\ Head(chatQ).op = "clear"
    /\ chatQ' = Tail(chatQ)
    /\ clearPhase' = "no"
    /\ UNCHANGED <<viewerVars, geomVars, citeVars, txVars, appVars, docStore, chatStore, docQ,
                   now, usedIds, remoteCalls, lastAsk>>

\* loadAppData after one of its two reads has resolved: Promise.all resolves
\* once both have
LoadGot(l) ==
    IF appLoad.pc # "pending"
    THEN UNCHANGED <<appLoad, documents, chatHistory, isLoadingLibrary>>
    ELSE IF l.gotDocs /\ l.gotChat
    THEN /\ documents' = l.docs
         /\ chatHistory' = l.chat
         /\ isLoadingLibrary' = FALSE
         /\ appLoad' = LoadSettled
    ELSE /\ appLoad' = l
         /\ UNCHANGED <<documents, chatHistory, isLoadingLibrary>>

\* loadAppData after one of its two reads has rejected: catch and finally
LoadFailed ==
    IF appLoad.pc # "pending"
    THEN UNCHANGED <<appLoad, isLoadingLibrary>>
    ELSE /\ isLoadingLibrary' = FALSE
         /\ appLoad' = LoadSettled

\* getChatHistory resolves
LoadChatDone ==
    /\ chatQ # <<>> /\ Head(chatQ).op = "getAll"
    /\ chatQ' = Tail(chatQ)
    /\ LoadGot([appLoad EXCEPT !.gotChat = TRUE, !.chat = GetChatHistory(chatStore)])
    /\ UNCHANGED <<viewerVars, geomVars, citeVars, txVars, inputText, isAsking, appError,
                   isProcessingFile, asks, upload, docStore, chatStore, docQ,
                   histVars>>

\* getChatHistory rejects
LoadChatFail ==
    /\ chatQ # <<>> /\ Head(chatQ).op = "getAll"
    /\ chatQ' = Tail(chatQ)
    /\ LoadFailed
    /\ UNCHANGED <<viewerVars, geomVars, citeVars, txVars, documents, chatHistory, inputText,
                   isAsking, appError, isProcessingFile, asks, upload,
                   docStore, chatStore, docQ, histVars>>

\* getAllDocuments resolves
LoadDocsDone ==
    /\ docQ # <<>> /\ Head(docQ).op = "getAll"
    /\ docQ' = Tail(docQ)
    /\ LoadGot([appLoad EXCEPT !.gotDocs = TRUE, !.docs = GetAllDocuments(docStore)])
    /\ UNCHANGED <<viewerVars, geomVars, citeVars, txVars, inputText, isAsking, appError,
                   isProcessingFile, asks, upload, docStore, chatStore, chatQ,
                   histVars>>

\* getAllDocuments rejects
LoadDocsFail ==
    /\ docQ # <<>> /\ Head(docQ).op = "getAll"
    /\ docQ' = Tail(docQ)
    /\ LoadFailed
    /\ UNCHANGED <<viewerVars, geomVars, citeVars, txVars, documents, chatHistory, inputText,
                   isAsking, appError, isProcessingFile, asks, upload,
                   docStore, chatStore, chatQ, histVars>>

\* setIsProcessingFile(true), setError(null), then processFile of the first of
\* the PDF files, up to extractTextFromPdf's await
BeginBatch(files) ==
    /\ upload = NoUpload
    /\ files # <<>>
    /\ \A i, j \in DOMAIN files : i # j => files[i] # files[j]
    /\ \A i \in DOMAIN files :
          files[i] \notin docStore /\ files[i] \notin Range(documents)
    /\ isProcessingFile' = TRUE
    /\ appError' = "none"
    /\ upload' = [pc |-> "extract", files |-> files, newDocs |-> <<>>]
    /\ UNCHANGED <<viewerVars, geomVars, citeVars, txVars, documents, chatHistory,
                   inputText, isAsking, isLoadingLibrary, asks, appLoad,
                   storeVars, histVars>>

\* handleFileUpload: the file input's button is disabled while the library
\* loads or a batch is processed
handleFileUpload(files) ==
    /\ ~(isProcessingFile \/ isLoadingLibrary)
    /\ BeginBatch(files)

\* handleDrop with the PDF files the dropped items scan to
handleDrop(files) == BeginBatch(files)

\* extractTextFromPdf resolves: processFile issues saveDocument
ExtractDone ==
    /\ upload.pc = "extract"
    /\ upload' = [upload EXCEPT !.pc = "save"]
    /\ docQ' = Append(docQ, [op |-> "put", doc |-> Head(upload.files)])
    /\ UNCHANGED <<viewerVars, geomVars, citeVars, txVars, documents, chatHistory, inputText,
                   isAsking, appError, isLoadingLibrary, isProcessingFile, asks,
                   appLoad, docStore, chatStore, chatQ, histVars>>

\* the catch and finally of handleFileUpload and of handleDrop: the loop is
\* left, newDocs is dropped
UploadFailed ==
    /\ appError' = "upload"
    /\ isProcessingFile' = FALSE
    /\ upload' = NoUpload

\* extractTextFromPdf rejects
ExtractFail ==
    /\ upload.pc = "extract"
    /\ UploadFailed
    /\ UNCHANGED <<viewerVars, geomVars, citeVars, txVars, documents, chatHistory, inputText,
                   isAsking, isLoadingLibrary, asks, appLoad, storeVars,
                   histVars>>

\* saveDocument resolves: newDocs.push(doc); the loop goes on with the next
\* file, or ends with setDocuments(prev => [...prev, ...newDocs])
SaveDocumentDone ==
    /\ docQ # <<>> /\ Head(docQ).op = "put"
    /\ docQ' = Tail(docQ)
    /\ docStore' = docStore \cup {Head(docQ).doc}
    /\ IF Tail(upload.files) = <<>>
       THEN /\ documents' = documents \o Append(upload.newDocs, Head(docQ).doc)
            /\ isProcessingFile' = FALSE
            /\ upload' = NoUpload
       ELSE /\ upload' = [pc |-> "extract", files |-> Tail(upload.files),
                          newDocs |-> Append(upload.newDocs, Head(docQ).doc)]
            /\ UNCHANGED <<documents, isProcessingFile>>
    /\ UNCHANGED <<viewerVars, geomVars, citeVars, txVars, chatHistory, inputText, isAsking,
                   appError, isLoadingLibrary, asks, appLoad, chatStore, chatQ,
                   histVars>>

\* saveDocument rejects
SaveDocumentFail ==
    /\ docQ # <<>> /\ Head(docQ).op = "put"
    /\ docQ' = Tail(docQ)
    /\ UploadFailed
    /\ UNCHANGED <<viewerVars, geomVars, citeVars, txVars, documents, chatHistory, inputText,
                   isAsking, isLoadingLibrary, asks, appLoad, docStore,
                   chatStore, chatQ, histVars>>

\* removeDocument up to its await: the delete is issued
removeDocument(d) ==
    /\ d \in Range(documents)
    /\ Cardinality({i \in DOMAIN docQ : docQ[i].op = "delete"}) < MaxDeletes
    /\ docQ' = Append(docQ, [op |-> "delete", doc |-> d])
    /\ UNCHANGED <<viewerVars, geomVars, citeVars, txVars, appVars, docStore, chatStore, chatQ,
                   histVars>>

\* deleteDocument resolves: the document leaves the in-memory list
DeleteDone ==
    /\ docQ # <<>> /\ Head(docQ).op = "delete"
    /\ docQ' = Tail(docQ)
    /\ docStore' = docStore \ {Head(docQ).doc}
    /\ documents' = SelectSeq(documents, LAMBDA x : x # Head(docQ).doc)
    /\ UNCHANGED <<viewerVars, geomVars, citeVars, txVars, chatHistory, inputText, isAsking,
                   appError, isLoadingLibrary, isProcessingFile, asks, appLoad,
                   upload, chatStore, chatQ, histVars>>

\* deleteDocument rejects: logged only
DeleteFail ==
    /\ docQ # <<>> /\ Head(docQ).op = "delete"
    /\ docQ' = Tail(docQ)
    /\ UNCHANGED <<viewerVars, geomVars, citeVars, txVars, appVars, docStore, chatStore, chatQ,
                   histVars>>

\* A millisecond passes
Tick ==
    /\ now < MaxTime
    /\ now' = now + 1
    /\ UNCHANGED <<viewerVars, geomVars, citeVars, txVars, appVars, storeVars, usedIds,
                   remoteCalls, lastAsk, clearPhase>>

\* The page is reloaded while no store request is pending: App mounts anew
\* and loadAppData runs; the calls in flight are gone
Reload ==
    /\ ~isOpen
    /\ docQ = <<>> /\ chatQ = <<>>
    /\ documents' = <<>> /\ chatHistory' = <<>> /\ inputText' = <<>>
    /\ isAsking' = FALSE /\ appError' = "none"
    /\ isLoadingLibrary' = TRUE /\ isProcessingFile' = FALSE
    /\ asks' = <<>> /\ appLoad' = LoadPending /\ upload' = NoUpload
    /\ docQ' = <<[op |-> "getAll", doc |-> 0]>>
    /\ chatQ' = <<GetAllRequest>>
    /\ lastAsk' = "none"
    /\ UNCHANGED <<viewerVars, geomVars, citeVars, txVars, docStore, chatStore, now, usedIds,
                   remoteCalls, clearPhase>>

NextChat ==
    \/ \E t \in Texts : SetInputText(t)
    \/ handleAsk
    \/ SaveUserDone
    \/ SaveUserFail
    \/ \E a \in 1..MaxAsks : RemoteResolve(a)
    \/ \E a \in 1..MaxAsks : RemoteReject(a)
    \/ SaveAssistantDone
    \/ SaveAssistantFail
    \/ handleClearChat
    \/ ClearDone
    \/ ClearFail
    \/ LoadChatDone
    \/ LoadChatFail
    \/ LoadDocsDone
    \/ LoadDocsFail
    \/ \E d \in Docs : handleFileUpload(<<d>>)
    \/ ExtractDone
    \/ ExtractFail
    \/ SaveDocumentDone
    \/ SaveDocumentFail
    \/ \E d \in Docs : removeDocument(d)
    \/ DeleteDone
    \/ DeleteFail
    \/ Tick
    \/ Reload

SpecChat == Init /\ [][NextChat]_vars

----------------------------------------------------------------------------
\* Citations: handleCitationClick over a loaded library, and the viewer it opens

\* the libraries the application may have loaded: no document twice
DocLists ==
    {l \in UNION {[1..n -> LibraryDocs] : n \in 0..MaxLibrary} :
        \A i, j \in DOMAIN l : i # j => l[i] # l[j]}

\* the citations the answers carry: a standard name and an optional page
Citations ==
    { [standard |-> <<"a", "b">>, page |-> 0, hasPage |-> FALSE],
      [standard |-> <<" ", "A", "B", ".", "p", "d", "f">>, page |-> 0,
       hasPage |-> TRUE],
      [standard |-> <<"a", "b", ".", "p", "d", "f">>, page |-> -1,
       hasPage |-> TRUE],
      [standard |-> <<"c">>, page |-> 2, hasPage |-> TRUE],
      [standard |-> <<"z">>, page |-> 1, hasPage |-> TRUE],
      [standard |-> <<>>, page |-> 5, hasPage |-> TRUE] }

\* the citation's page taken as it comes
PageOfUndefaulted(c) == c.page

\* Math.max(1, citation.page || 1)
PageOf(c) == IF c.hasPage THEN CitationPage(c.page) ELSE Max(1, 1)

\* how the viewer takes the new activeClause
HowShown(clause) ==
    IF ~isOpen THEN "mounted"
    ELSE IF clause # activeClause THEN "replaced"
    ELSE "same"

handleCitationClick(c, vp, cap) ==
    LET doc == ResolveCitation(documents, c.standard)
        clause == [doc |-> doc, page |-> PageOf(c)]
    IN  IF doc = NoDoc
        THEN /\ appError' = "notFound"
             /\ UNCHANGED <<viewerVars, geomVars, documents, chatHistory,
                            inputText, isAsking, isLoadingLibrary,
                            isProcessingFile, asks, appLoad, upload,
                            storeVars, histVars, citeVars, txVars>>
        ELSE /\ ShowClause(clause, vp, cap)
             /\ appError' = "none"
             /\ cited' = [standard |-> c.standard, page |-> c.page,
                          hasPage |-> c.hasPage, how |-> HowShown(clause)]
             /\ UNCHANGED <<documents, chatHistory, inputText, isAsking,
                            isLoadingLibrary, isProcessingFile, asks, appLoad,
                            upload, storeVars, histVars, txVars>>

\* the application after loadAppData has brought a library in
InitCite ==
    /\ activeClause = NoClause
    /\ currentPage = 1 /\ totalPages = 0 /\ loading = TRUE
    /\ viewerError = "none" /\ scale = ZoomDefault
    /\ pdfDocRef = NoDoc /\ renderTaskRef = NoTask
    /\ loads = <<>> /\ renders = <<>>
    /\ canvas = Blank /\ lastRequest = NoRequest /\ leakedDoc = FALSE
    /\ pos = [x |-> 0, y |-> 0] /\ size = [width |-> 900, height |-> 800]
    /\ isDragging = FALSE /\ isResizing = FALSE
    /\ dragStart = [x |-> 0, y |-> 0] /\ sizeStart = [w |-> 0, h |-> 0]
    /\ pointer = [x |-> 0, y |-> 0]
    /\ documents \in DocLists
    /\ chatHistory = <<>> /\ inputText = <<>>
    /\ isAsking = FALSE /\ appError = "none"
    /\ isLoadingLibrary = FALSE /\ isProcessingFile = FALSE
    /\ asks = <<>> /\ appLoad = LoadSettled /\ upload = NoUpload
    /\ docStore = Range(documents) /\ chatStore = {}
    /\ docQ = <<>> /\ chatQ = <<>>
    /\ now = 0 /\ usedIds = {} /\ remoteCalls = 0
    /\ lastAsk = "none" /\ clearPhase = "no"
    /\ cited = NoCite
    /\ txs = <<>> /\ savedOk = {}

\* the resolution alone: every library, every citation
NextResolve ==
    \/ \E c \in Citations : handleCitationClick(c, DefaultViewport, MaxCiteLoads)
    \/ Close

SpecResolve == InitCite /\ [][NextResolve]_vars

NextCite ==
    \/ \E c \in Citations : handleCitationClick(c, DefaultViewport, MaxCiteLoads)
    \/ Close
    \/ PreviousPage
    \/ NextPage
    \/ \E l \in DOMAIN loads : DecodeResolve(l)
    \/ \E r \in DOMAIN renders : GetPageResolve(r)
    \/ \E r \in DOMAIN renders : RenderDone(r)
    \/ \E r \in DOMAIN renders : RenderCancelled(r)
    \/ \E r \in DOMAIN renders : GetPageReject(r)

\* the viewer behind the citations, over two libraries that hold every document
InitViewing == InitCite /\ documents \in {<<1, 2, 3>>, <<3, 2, 1>>}

SpecCite == InitViewing /\ [][NextCite]_vars

\* citations activated on a viewer that the reader may have zoomed
NextZoomedCite ==
    \/ \E c \in {x \in Citations : x.hasPage /\ x.page >= 0} :
          handleCitationClick(c, DefaultViewport, MaxCiteLoads)
    \/ Close
    \/ ZoomIn(ZoomDefault, MaxCiteLoads)
    \/ ResetZoom(MaxCiteLoads)
    \/ \E l \in DOMAIN loads : DecodeResolve(l)
    \/ \E r \in DOMAIN renders : GetPageResolve(r)
    \/ \E r \in DOMAIN renders : RenderDone(r)
    \/ \E r \in DOMAIN renders : RenderCancelled(r)
    \/ \E r \in DOMAIN renders : GetPageReject(r)

SpecZoomedCite == InitViewing /\ [][NextZoomedCite]_vars

----------------------------------------------------------------------------
\* Batches: handleFileUpload and handleDrop with several PDF files

\* the files of one selection or drop: no file twice
NextBatch ==
    \/ \E files \in DocLists \ {<<>>} : handleFileUpload(files)
    \/ \E files \in DocLists \ {<<>>} : handleDrop(files)
    \/ ExtractDone
    \/ ExtractFail
    \/ SaveDocumentDone
    \/ SaveDocumentFail

SpecBatch == InitCite /\ [][NextBatch]_vars

\* The library from startup on, with a store that never fails: the startup
\* load, uploads, drops (extraction may throw) and removals
NextLibrary ==
    \/ LoadChatDone
    \/ LoadDocsDone
    \/ \E files \in DocLists \ {<<>>} : handleFileUpload(files)
    \/ \E files \in DocLists \ {<<>>} : handleDrop(files)
    \/ ExtractDone
    \/ ExtractFail
    \/ SaveDocumentDone
    \/ \E d \in LibraryDocs : removeDocument(d)
    \/ DeleteDone

SpecLibrary == Init /\ [][NextLibrary]_vars

----------------------------------------------------------------------------
\* The storage service by itself: one readwrite transaction per save, with the
\* request's events and the transaction's end as separate steps.  (The
\* application's actions above take a save as one step that ends at the
\* request's success with the record in the store.)

\* saveDocument up to its promise: initDB, the transaction, store.put(doc)
saveDocument(d) ==
    /\ Cardinality(DOMAIN txs) < MaxTxs
    /\ txs' = txs @@ (FreeSlot(txs) :>
                 [store |-> "documents", key |-> d, msg |-> NoMsg,
                  phase |-> "put"])
    /\ UNCHANGED <<viewerVars, geomVars, chatVars, citeVars, savedOk>>

\* saveChatMessage up to its promise
saveChatMessage(m) ==
    /\ Cardinality(DOMAIN txs) < MaxTxs
    /\ txs' = txs @@ (FreeSlot(txs) :>
                 [store |-> "chat_history", key |-> m.id, msg |-> m,
                  phase |-> "put"])
    /\ UNCHANGED <<viewerVars, geomVars, chatVars, citeVars, savedOk>>

\* request.onsuccess = () => resolve(): the promise resolves, the transaction
\* is still to commit
PutSuccess(t) ==
    /\ t \in DOMAIN txs /\ txs[t].phase = "put"
    /\ txs' = [txs EXCEPT ![t].phase = "committing"]
    /\ savedOk' = savedOk \cup {[store |-> txs[t].store, key |-> txs[t].key]}
    /\ UNCHANGED <<viewerVars, geomVars, chatVars, citeVars>>

\* request.onerror = () => reject(request.error): the transaction aborts
PutError(t) ==
    /\ t \in DOMAIN txs /\ txs[t].phase = "put"
    /\ txs' = Without(txs, t)
    /\ UNCHANGED <<viewerVars, geomVars, chatVars, citeVars, savedOk>>

\* the transaction completes: its write is in the store.  No handler is set
\* for this event.
TxComplete(t) ==
    /\ t \in DOMAIN txs /\ txs[t].phase = "committing"
    /\ txs' = Without(txs, t)
    /\ IF txs[t].store = "documents"
       THEN docStore' = docStore \cup {txs[t].key} /\ UNCHANGED chatStore
       ELSE chatStore' = Put(chatStore, txs[t].msg) /\ UNCHANGED docStore
    /\ UNCHANGED <<viewerVars, geomVars, appVars, docQ, chatQ, histVars,
                   citeVars, savedOk>>

\* the transaction aborts while committing (quota, disk failure, the page going
\* away): its write is rolled back.  No handler is set for this event.
TxAbort(t) ==
    /\ t \in DOMAIN txs /\ txs[t].phase = "committing"
    /\ txs' = Without(txs, t)
    /\ UNCHANGED <<viewerVars, geomVars, chatVars, citeVars, savedOk>>

NextStore ==
    \/ \E d \in LibraryDocs : saveDocument(d)
    \/ \E i \in MsgIds :
          saveChatMessage([id |-> i, role |-> "user", timestamp |-> 0])
    \/ \E t \in DOMAIN txs : PutSuccess(t)
    \/ \E t \in DOMAIN txs : PutError(t)
    \/ \E t \in DOMAIN txs : TxComplete(t)
    \/ \E t \in DOMAIN txs : TxAbort(t)

\* the stores of a fresh database
InitStore == InitCite /\ documents = <<>>

SpecStore == InitStore /\ [][NextStore]_vars

----------------------------------------------------------------------------
\* C1: last-request-wins rendering.  Once every decode and every renderPage
\* call of the open overlay has settled without a failure, the canvas shows the
\* page/zoom pair of the most recently issued renderPage call.
C1_LastRequestWins ==
    (/\ isOpen /\ loads = <<>> /\ renders = <<>>
     /\ viewerError = "none" /\ lastRequest # NoRequest)
    => canvas = lastRequest

\* C2: viewer cleanup on every exit path.  Once every decode has settled, the
\* only decoded document still alive is the one the open overlay holds in
\* pdfDocRef; after a close none is alive.
C2_NoDocumentOutlivesSession ==
    loads = <<>> => ~leakedDoc

\* C3: page bounds.  Every next/previous navigation leaves the current page
\* within [1, totalPages].
C3_PageWithinBounds ==
    [][(PreviousPage \/ NextPage)
        => (1 <= currentPage' /\ currentPage' <= totalPages')]_vars

C1_SupersededRequestDrewLast ==
    /\ isOpen /\ loads = <<>> /\ renders = <<>> /\ viewerError = "none"
    /\ lastRequest # NoRequest /\ canvas # Blank /\ canvas # lastRequest

C2_DocumentLeaked ==
    ~isOpen /\ loads = <<>> /\ leakedDoc

C3_PageOutOfBounds ==
    /\ isOpen /\ ~loading /\ viewerError = "load"
    /\ currentPage < activeClause.page /\ currentPage > totalPages

\* C4: zoom bounds.  The zoom factor of the overlay is always within
\* [0.5, 4.0]; at 0.5 the zoom-out step yields 0.5 again, at 4.0 the zoom-in
\* step yields 4.0 again.
C4_ZoomBounds ==
    /\ ZoomMin <= scale /\ scale <= ZoomMax
    /\ scale = ZoomMin => ZoomOutScale(scale) = scale
    /\ scale = ZoomMax => ZoomInScale(scale) = scale

C4_ZoomedToTheLimit ==
    isOpen /\ scale = ZoomMax /\ loads # <<>>

\* C5: resize floor.  A resize start records the current size and the
\* pointer; every later move of that gesture sets the size to
\* max(400, startWidth + deltaX) by max(300, startHeight + deltaY), each axis
\* on its own, so the width is at least 400 and the height at least 300.
C5_ResizeFloor ==
    [][/\ (~isResizing /\ isResizing') =>
            /\ sizeStart' = [w |-> size.width, h |-> size.height]
            /\ dragStart' = pointer'
            /\ size' = size
       /\ (isResizing /\ isResizing') =>
            /\ sizeStart' = sizeStart /\ dragStart' = dragStart
            /\ size'.width = Max(MinWidth, sizeStart.w + (pointer'.x - dragStart.x))
            /\ size'.height = Max(MinHeight, sizeStart.h + (pointer'.y - dragStart.y))
            /\ size'.width >= MinWidth /\ size'.height >= MinHeight]_vars

C5_ClampedOnOneAxis ==
    /\ isResizing
    /\ sizeStart.w + (pointer.x - dragStart.x) < MinWidth
    /\ size.width = MinWidth
    /\ size.height > MinHeight
    /\ size.height = sizeStart.h + (pointer.y - dragStart.y)

\* C6: remote failure outcome of ask.  When the remote query of an ask fails,
\* the transcript and the store are left as they are (the user message stays,
\* no assistant message is added, no write is issued), the error is set to the
\* failure reason, no further remote call is made, the ask is over and the
\* asking flag is false.
C6_RemoteFailureOutcome ==
    [][\A a \in DOMAIN asks :
          (/\ asks[a].pc = "remote"
           /\ a \notin DOMAIN asks'
           /\ isLoadingLibrary' = isLoadingLibrary)
          => /\ chatHistory' = chatHistory
             /\ chatStore' = chatStore
             /\ chatQ' = chatQ
             /\ appError' = "remote"
             /\ remoteCalls' = remoteCalls
             /\ isAsking' = FALSE]_vars

C6_RemoteFailed ==
    /\ appError = "remote" /\ ~isAsking /\ asks = <<>> /\ chatQ = <<>>
    /\ remoteCalls = 1
    /\ Len(chatHistory) = 1 /\ chatHistory[1].role = "user"
    /\ chatStore = {chatHistory[1]}

\* C7: ordering inside ask.  A new ask appends its user message to the
\* transcript before anything is written or asked; the remote query is invoked
\* in the very step in which the put of that user message succeeds; and when a
\* remote call settles, the user message of its ask has been written to the
\* store.
C7_AskOrdering ==
    [][/\ \A a \in DOMAIN asks' \ DOMAIN asks :
            /\ chatHistory' = Append(chatHistory, asks'[a].user)
            /\ asks'[a].user \notin chatStore'
            /\ remoteCalls' = remoteCalls
       /\ remoteCalls' # remoteCalls =>
            /\ remoteCalls' = remoteCalls + 1
            /\ \E a \in DOMAIN asks :
                  /\ asks[a].pc = "saveUser" /\ asks'[a].pc = "remote"
                  /\ Head(chatQ).msg = asks[a].user
                  /\ asks[a].user \notin chatStore
                  /\ asks[a].user \in chatStore'
                  /\ asks'[a].saved
       /\ \A a \in DOMAIN asks :
            (asks[a].pc = "remote" /\ (a \notin DOMAIN asks' \/ asks'[a].pc # "remote"))
            => asks[a].saved]_vars

C7_AnsweredAfterSave ==
    \E a \in DOMAIN asks :
        /\ asks[a].pc = "saveAsst" /\ asks[a].saved
        /\ asks[a].user \in chatStore
        /\ asks[a].user \in Range(chatHistory)

\* C8: ask with no documents is a no-op.  A handleAsk call made while the
\* document list is empty, or while the input is blank after trimming, adds no
\* message to the transcript, issues no write and makes no remote call.
C8_NoDocumentsNoAsk ==
    [][(handleAsk /\ (documents = <<>> \/ Trim(inputText) = <<>>))
        => /\ chatHistory' = chatHistory
           /\ chatStore' = chatStore
           /\ chatQ' = chatQ
           /\ asks' = asks
           /\ remoteCalls' = remoteCalls]_vars

C8_RefusedWithoutDocuments ==
    /\ lastAsk = "noDocuments"
    /\ documents = <<>> /\ Trim(inputText) # <<>>
    /\ asks = <<>> /\ chatQ = <<>>

\* C9: clear history.  Once a clear has completed, and as long as no question
\* was accepted since that clear was invoked, the transcript is empty and a
\* reload from the store yields no message.
C9_ClearEmpties ==
    clearPhase = "done"
        => (chatHistory = <<>> /\ GetChatHistory(chatStore) = <<>>)

C9_MessageAfterClear ==
    clearPhase = "done" /\ asks = <<>> /\ chatQ = <<>> /\ chatStore # {}

\* C10: transcript round-trip.  What getChatHistory returns is ordered by
\* timestamp ascending; and when the store holds exactly the messages of the
\* transcript, it returns them in the transcript's order.
C10_RoundTrip ==
    /\ \A i \in 1..(Len(GetChatHistory(chatStore)) - 1) :
          GetChatHistory(chatStore)[i].timestamp
              <= GetChatHistory(chatStore)[i + 1].timestamp
    /\ (/\ chatQ = <<>>
        /\ Range(chatHistory) = chatStore
        /\ Len(chatHistory) = Cardinality(chatStore))
       => GetChatHistory(chatStore) = chatHistory

C10_ReorderedOnReload ==
    /\ chatQ = <<>> /\ asks = <<>>
    /\ Range(chatHistory) = chatStore
    /\ Len(chatHistory) = Cardinality(chatStore)
    /\ GetChatHistory(chatStore) # chatHistory

----------------------------------------------------------------------------
\* C11: whenever some document of the library has a normalized name (lower
\* case, trailing .pdf removed) equal to the citation's normalized name, the
\* document handleCitationClick resolves to has such a name, whatever fuzzy
\* candidates the library holds and wherever they stand in the list; and the
\* viewer a citation opened shows such a document.
HasExact(docs, std) ==
    \E i \in DOMAIN docs : docNameNoExt(docs[i]) = TargetNoExt(std)

C11_ExactBeatsFuzzy ==
    /\ \A std \in CiteNames :
          HasExact(documents, std) =>
              /\ ResolveCitation(documents, std) # NoDoc
              /\ docNameNoExt(ResolveCitation(documents, std)) = TargetNoExt(std)
    /\ (isOpen /\ cited # NoCite /\ HasExact(documents, cited.standard)) =>
          docNameNoExt(activeClause.doc) = TargetNoExt(cited.standard)

\* a citation opened the exactly named document although a fuzzy candidate of
\* the library is nearer to the citation in length
C11_ExactChosenOverNearerFuzzy ==
    /\ isOpen /\ cited # NoCite
    /\ docNameNoExt(activeClause.doc) = TargetNoExt(cited.standard)
    /\ \E d \in Range(documents) :
          /\ FuzzyMatch(d, cited.standard)
          /\ docNameNoExt(d) # TargetNoExt(cited.standard)
          /\ Distance(d, cited.standard) < Distance(activeClause.doc, cited.standard)

\* C12: a citation that resolves and whose page is absent, zero or negative
\* opens the viewer (mounts it, or turns it to another clause) with initial
\* page 1; a viewer it mounted starts at page 1; and once the decode and every
\* render have settled without an error, as long as the reader has not
\* navigated, the current page is 1 and the canvas shows page 1.
Defaulted(c) == ~c.hasPage \/ c.page <= 0

Settled ==
    /\ isOpen /\ ~loading /\ viewerError = "none"
    /\ loads = <<>> /\ renders = <<>>

C13_ActivationShowsCitedPage ==
    (Settled /\ cited # NoCite) =>
        /\ pdfDocRef = ResolveCitation(documents, cited.standard)
        /\ currentPage = Min(PageOf(cited), totalPages)
        /\ canvas[1] = Min(PageOf(cited), totalPages)

\* the citation was activated on a viewer that was already showing its clause
\* and had been navigated away from the cited page: nothing moved
C13_StayedOnNavigatedPage ==
    /\ Settled /\ cited # NoCite /\ cited.how = "same"
    /\ pdfDocRef = ResolveCitation(documents, cited.standard)
    /\ currentPage # Min(PageOf(cited), totalPages)
    /\ canvas[1] = currentPage

\* C14: when no document of the library matches the citation in the exact
\* pass and none in the substring pass, handleCitationClick returns normally
\* with the error set to the standard-not-found message, and activeClause and
\* the whole viewer session are as they were: that activation opens no viewer.
C14_NotFound ==
    [][\A c \in Citations :
          (/\ handleCitationClick(c, DefaultViewport, MaxCiteLoads)
           /\ FindExact(documents, c.standard) = NoDoc
           /\ Candidates(documents, c.standard) = <<>>)
          => (/\ appError' = "notFound"
              /\ activeClause' = activeClause
              /\ UNCHANGED <<viewerVars, geomVars>>)]_vars

\* an unknown standard was cited while the viewer was open on another one
C14_NotFoundBesideOpenViewer ==
    /\ appError = "notFound" /\ isOpen
    /\ documents # <<>>

\* C15: when text extraction throws for one file of a batch and the upload or
\* drop handler has returned, every other file of the batch, those before the
\* failing one and those after it, is in the documents store and in the
\* in-memory document list.
C15_BatchSurvivesExtractionFailure ==
    [][(ExtractFail /\ upload' = NoUpload) =>
          \A d \in Range(upload.newDocs) \cup Range(Tail(upload.files)) :
              d \in docStore' /\ d \in Range(documents')]_vars

\* a batch was abandoned after one of its files had been saved: the file is in
\* the store and not in the list
C15_SavedFileNotListed ==
    /\ upload = NoUpload /\ appError = "upload" /\ docQ = <<>>
    /\ \E d \in docStore : d \notin Range(documents)

\* C16: whenever the promise of saveDocument or of saveChatMessage has
\* resolved, the record it wrote is committed: the store holds a record under
\* its key.
InStore(s) ==
    IF s.store = "documents" THEN s.key \in docStore
    ELSE \E m \in chatStore : m.id = s.key

C16_DurableWhenResolved == \A s \in savedOk : InStore(s)

\* a save resolved, its transaction is over, and the store has no record
\* under the key: the write was rolled back after the caller was told
C16_ResolvedSaveRolledBack ==
    \E s \in savedOk :
        /\ ~InStore(s)
        /\ \A t \in DOMAIN txs : <<txs[t].store, txs[t].key>> # <<s.store, s.key>>

\* C17: while the viewer shows a failure (a decode failure of loadPdf or a
\* failure of renderPage that is not a cancellation), zooming in, zooming
\* out, resetting the zoom and going to the next or the previous page leave
\* the failure and its reason as they are.
C17_ErrorIsTerminal ==
    [][(/\ viewerError # "none"
        /\ \/ ZoomOut(ZoomMin, MaxZoomLoads)
           \/ ZoomIn(ZoomMax, MaxZoomLoads)
           \/ ResetZoom(MaxZoomLoads)
           \/ PreviousPage
           \/ NextPage)
       => viewerError' = viewerError]_vars

\* C18: a zoom-in, zoom-out or reset leaves the current page and the total
\* page count as they are, and so does the decode that the zoom change
\* started while the current page was on the canvas and no failure was shown:
\* after the re-render the viewer is on the page the reader had navigated to.
C18_ZoomKeepsPage ==
    [][/\ (\/ ZoomOut(ZoomDefault + 1, MaxLoads)
           \/ ZoomIn(ZoomDefault + MaxZoomSteps - 1, MaxLoads)
           \/ ResetZoom(MaxLoads))
          => (currentPage' = currentPage /\ totalPages' = totalPages)
       /\ \A l \in DOMAIN loads :
             (/\ DecodeResolve(l) /\ loads[l].cur /\ DOMAIN loads = {l}
              /\ totalPages > 0 /\ viewerError = "none"
              /\ canvas[1] = currentPage)
             => (currentPage' = currentPage /\ totalPages' = totalPages)]_vars

\* C19: a renderPage call that was superseded or cancelled (by a newer call, by
\* the cleanup of the load effect after a zoom change, which destroys the
\* document, or by a close) ends without touching the viewer's error state.
C19_CancelledRenderIsSilent ==
    [][\A r \in DOMAIN renders :
          (/\ renders[r].st \in {"cancelled", "dead"}
           /\ GetPageReject(r) \/ RenderFail(r) \/ RenderCancelled(r))
          => viewerError' = viewerError]_vars

\* the page is drawn at the current zoom, nothing is pending, and the viewer
\* shows the failure of a renderPage call that the zoom change had cancelled
C19_CancellationShownAsFailure ==
    /\ isOpen /\ viewerError = "render"
    /\ loads = <<>> /\ renders = <<>>
    /\ canvas = <<currentPage, scale>>

\* C20: whenever an operation of the local store that the application invoked
\* fails (the two reads of loadAppData, the save of the user's or of the
\* assistant's message, the clear, the save of a document, the delete), the
\* handler sets the user-visible error, and the records of both stores are as
\* they were.
StorageFailure ==
    \/ LoadDocsFail
    \/ LoadChatFail
    \/ SaveUserFail
    \/ SaveAssistantFail
    \/ ClearFail
    \/ SaveDocumentFail
    \/ DeleteFail

C20_StorageFailureSurfaced ==
    [][StorageFailure =>
          /\ appError' \in {"store", "upload"}
          /\ docStore' = docStore /\ chatStore' = chatStore]_vars

\* the library failed to load: the store holds documents, the list is empty,
\* nothing is pending and no error is shown
C20_SilentLoadFailure ==
    /\ ~isLoadingLibrary /\ appLoad = LoadSettled /\ appError = "none"
    /\ docQ = <<>> /\ chatQ = <<>> /\ upload = NoUpload
    /\ documents = <<>> /\ docStore # {}

\* C21: in every state of an open viewer, from the opening geometry on (90% of
\* the viewport, capped at 1000 by 850) and for every viewport, the window
\* is at least 400 wide and at least 300 high.
C21_SizeFloorAlways ==
    isOpen => (size.width >= MinWidth /\ size.height >= MinHeight)

\* the viewer opened on a small viewport and nobody has resized it: the
\* window is 90% of the viewport, below the floor on both axes
C21_OpenedBelowFloor ==
    /\ isOpen /\ ~isResizing /\ sizeStart = [w |-> 0, h |-> 0]
    /\ size.width < MinWidth /\ size.height < MinHeight

\* C22: every citation activation that creates the viewer session or replaces
\* it with the session of another document leaves the zoom factor at 1.0, also
\* when the overlay was open and zoomed.
C22_NewSessionAtDefaultZoom ==
    [][(isOpen' /\ activeClause'.doc # activeClause.doc) =>
          scale' = ZoomDefault]_vars

\* a citation of another document was activated on a zoomed viewer: the decode
\* of the new document is pending and the zoom is still the old session's
C22_ReplacedSessionKeptZoom ==
    /\ isOpen /\ cited # NoCite /\ cited.how = "replaced"
    /\ loads # <<>> /\ scale # ZoomDefault
    /\ totalPages # NumPages(activeClause.doc)

\* C23: at every moment at most one handleAsk call is past its guard, and so
\* at most one remote query is outstanding: a submit that arrives while the
\* put of the first ask's user message is pending starts no second ask.
C23_OneAskInFlight ==
    /\ Cardinality(DOMAIN asks) <= 1
    /\ Cardinality({a \in DOMAIN asks : asks[a].pc = "remote"}) <= 1

\* the same question was submitted twice: two user messages are in the
\* transcript and two remote queries are outstanding
C23_TwoQueriesOutstanding ==
    /\ Cardinality({a \in DOMAIN asks : asks[a].pc = "remote"}) = 2
    /\ \A a \in DOMAIN asks : asks[a].user \in Range(chatHistory)
    /\ isAsking /\ inputText = <<>>

\* C24: whenever the startup load has settled and no upload, drop or delete is
\* in flight, and no operation of the store has failed, the in-memory document
\* list holds exactly the documents of the store, each once.
C24_CacheMatchesStore ==
    (/\ appLoad = LoadSettled /\ ~isLoadingLibrary
     /\ upload = NoUpload /\ docQ = <<>>)
    => /\ Range(documents) = docStore
       /\ \A i, j \in DOMAIN documents : i # j => documents[i] # documents[j]

\* the library is at rest and shows no failure, and a stored document is
\* missing from the list: a drop made during the startup load was overwritten
\* by the load's result
C24_StoredDocumentMissing ==
    /\ appLoad = LoadSettled /\ ~isLoadingLibrary
    /\ upload = NoUpload /\ docQ = <<>> /\ appError = "none"
    /\ \E d \in docStore : d \notin Range(documents)

\* C25: when every decode, getPage and render call settles, an open viewer
\* that is loading at some zoom factor reaches loading = FALSE unless it is
\* closed or zoomed again, and an open viewer is never loading with no decode
\* and no render outstanding.
C25_LoadingEnds ==
    /\ [](~(isOpen /\ loading /\ loads = <<>> /\ renders = <<>>))
    /\ \A s \in ZoomDefault..(ZoomDefault + MaxZoomSteps) :
          (isOpen /\ loading /\ scale = s)
              ~> (~isOpen \/ ~loading \/ scale # s)

\* the zoom was changed while a page was being drawn: the cancelled task has
\* not reported yet, the page is drawn at the new factor and loading is over
C25_SettledAfterCancellation ==
    /\ isOpen /\ ~loading /\ viewerError = "none"
    /\ scale # ZoomDefault /\ loads = <<>>
    /\ canvas = <<currentPage, scale>>
    /\ \E r \in DOMAIN renders : renders[r].st = "cancelled"

====
